---- MODULE Spec2Model ----
(***************************************************************************)
(* Model of the image editor of src/image_processor.py (ImageProcessorApp) *)
(* and of the pixel / geometry helpers of src/image_utils.py.              *)
(*                                                                         *)
(* Representation                                                          *)
(*   image      a record [w, h, px]: width, height and the row-major       *)
(*              sequence of RGB pixels <<r, g, b>>, samples in 0..255;     *)
(*              None (Python's None) is the record with w = h = 0.         *)
(*   contrast, saturation, filter intensity                                *)
(*              floats with one decimal in the program (Scale widgets of   *)
(*              resolution 0.1); held here in tenths: 10 stands for 1.0.   *)
(*   app        the fields of the ImageProcessorApp object.                *)
(* Every handler is an operator from the object's state to its state after *)
(* the handler returned, so a handler that calls update_image and          *)
(* add_to_history is the composition of those operators.                   *)
(***************************************************************************)
EXTENDS Integers, Sequences, FiniteSets, TLC

VARIABLES
    app,      \* the fields of the ImageProcessorApp object
    prev,     \* app as it was when the last handler started
    lastOp,   \* the handler that ran last
    nops,     \* handlers run so far
    pushlog,  \* under SpecPush: the images the run was expected to record
    call      \* under SpecUtil: the last direct call of an image_utils function

vars == <<app, prev, lastOp, nops, pushlog, call>>

(***************************************************************************)
(* Bounds of the model and constants of the program                        *)
(***************************************************************************)
\* operations explored from construction under Spec (all inputs)
MaxOps == 4

\* operations explored under SpecHist (few inputs per operation, long runs)
MaxOpsHist == 7

\* operations explored under SpecPush (a load, then geometry edits in a row)
MaxPushOps == 12

\* handlers run under SpecUtil, next to the direct calls of image_utils
MaxUtilOps == 3

\* self.max_history = 10
max_history == 10

\* winfo_width() / winfo_height() of the processed canvas (a fixed layout)
canvas_width == 4

canvas_height == 2

(***************************************************************************)
(* Images                                                                  *)
(***************************************************************************)
None == [w |-> 0, h |-> 0, px |-> <<>>]

\* the image whose pixel at column x, row y (both from 0) is F(x, y)
MkImage(w, h, F(_, _)) ==
    [w |-> w, h |-> h, px |-> [i \in 1..(w * h) |-> F((i - 1) % w, (i - 1) \div w)]]

At(img, x, y) == img.px[y * img.w + x + 1]

MapPixels(img, F(_)) == [img EXCEPT !.px = [i \in 1..Len(img.px) |-> F(img.px[i])]]

Min(a, b) == IF a < b THEN a ELSE b

Max(a, b) == IF a > b THEN a ELSE b

\* Image.copy(): a new object with the same size and pixels
Copy(img) == img

\* the decoded RGB files the user can open
ImgA == [w |-> 2, h |-> 1, px |-> <<<<200, 100, 50>>, <<10, 20, 30>>>>]

ImgB == [w |-> 2, h |-> 1, px |-> <<<<128, 128, 128>>, <<0, 255, 64>>>>]

(***************************************************************************)
(* Pixel operations of Pillow used by image_utils.py                       *)
(***************************************************************************)
\* Image.convert('L') of one RGB pixel (ITU-R 601-2 luma, 16 bit fixed point)
Luma(p) == (p[1] * 19595 + p[2] * 38470 + p[3] * 7471 + 32768) \div 65536

Gray(p) == <<Luma(p), Luma(p), Luma(p)>>

\* one sample of Image.blend(im1, im2, num/den): a + (num/den) * (b - a),
\* clipped to 0..255 and truncated
BlendSample(a, b, num, den) ==
    LET t == a * den + num * (b - a)
    IN  IF t <= 0 THEN 0 ELSE IF t >= 255 * den THEN 255 ELSE t \div den

BlendPixel(p, q, num, den) ==
    <<BlendSample(p[1], q[1], num, den), BlendSample(p[2], q[2], num, den),
      BlendSample(p[3], q[3], num, den)>>

RECURSIVE SumLuma(_, _)
SumLuma(px, n) == IF n = 0 THEN 0 ELSE Luma(px[n]) + SumLuma(px, n - 1)

\* int(ImageStat.Stat(image.convert("L")).mean[0] + 0.5)
MeanLuma(img) ==
    LET n == Len(img.px) IN (2 * SumLuma(img.px, n) + n) \div (2 * n)

\* ImageEnhance.Brightness(img).enhance(num/den): blend with a black image
EnhanceBrightness(img, num, den) ==
    MapPixels(img, LAMBDA p : BlendPixel(<<0, 0, 0>>, p, num, den))

\* ImageEnhance.Contrast(img).enhance(num/den): blend with the mean gray
EnhanceContrast(img, num, den) ==
    LET m == MeanLuma(img)
    IN  MapPixels(img, LAMBDA p : BlendPixel(<<m, m, m>>, p, num, den))

\* ImageEnhance.Color(img).enhance(num/den): blend with the grayscale image
EnhanceColor(img, num, den) ==
    MapPixels(img, LAMBDA p : BlendPixel(Gray(p), p, num, den))

\* adjust_brightness_contrast that always enhances the brightness, by the
\* factor brightness / 100.0 (the 1.0 + is missing)
adjust_brightness_contrast_raw_factor(image, brightness, contrast) ==
    LET img1 == EnhanceBrightness(image, brightness, 100)
    IN  IF contrast # 10 THEN EnhanceContrast(img1, contrast, 10) ELSE img1

adjust_brightness_contrast(image, brightness, contrast) ==
    LET img1 == IF brightness # 0
                THEN EnhanceBrightness(image, 100 + brightness, 100)
                ELSE Copy(image)
    IN  IF contrast # 10 THEN EnhanceContrast(img1, contrast, 10) ELSE img1

adjust_saturation(image, factor) == EnhanceColor(image, factor, 10)

\* (shift % 360) / 360.0 compared with 1/3 and 2/3: 120 and 240 give the
\* very floats 1/3 and 2/3, so 120 falls in the second third and 240 in the last
adjust_hue(image, shift) ==
    LET s == shift % 360
    IN  IF s < 120 THEN MapPixels(image, LAMBDA p : <<p[3], p[1], p[2]>>)
        ELSE IF s < 240 THEN MapPixels(image, LAMBDA p : <<p[2], p[3], p[1]>>)
        ELSE image

(***************************************************************************)
(* Composite effects of image_utils.py. `env` is the build the module runs *)
(* in: env.numpy is NUMPY_AVAILABLE, env.cast is what the platform's       *)
(* conversion of a float outside 0..255 to uint8 gives, which C leaves     *)
(* undefined: the value modulo 256 ("wrap") or the nearest bound           *)
(* ("saturate")                                                            *)
(***************************************************************************)
Builds == [numpy : BOOLEAN, cast : {"wrap", "saturate"}]

\* the build recorded with a call of a function that does not depend on it
AnyBuild == [numpy |-> TRUE, cast |-> "wrap"]

\* Image.blend(im1, im2, num/den) of two images of one size
Blend(im1, im2, num, den) ==
    [im1 EXCEPT !.px = [i \in 1..Len(im1.px) |->
                            BlendPixel(im1.px[i], im2.px[i], num, den)]]

\* an integer v stored into a uint8 array
CastUint8(v, cast) ==
    IF 0 <= v /\ v <= 255 THEN v
    ELSE IF cast = "wrap" THEN (v + 256) % 256
    ELSE IF v < 0 THEN 0 ELSE 255

\* sepia_matrix, in thousandths, one row for each output channel
sepia_matrix == <<<<393, 769, 189>>, <<349, 686, 168>>, <<272, 534, 131>>>>

\* the weighted sum of row k for the pixel p, truncated as the assignment
\* into the uint8 array truncates it
SepiaSum(p, k) ==
    (p[1] * sepia_matrix[k][1] + p[2] * sepia_matrix[k][2]
     + p[3] * sepia_matrix[k][3]) \div 1000

\* the sums are cast to uint8 when they are assigned to sepia_array, which
\* is np.zeros_like(img_array); np.clip then sees values already in 0..255
apply_sepia(image, env) ==
    IF env.numpy
    THEN MapPixels(image, LAMBDA p : <<CastUint8(SepiaSum(p, 1), env.cast),
                                       CastUint8(SepiaSum(p, 2), env.cast),
                                       CastUint8(SepiaSum(p, 3), env.cast)>>)
    ELSE adjust_brightness_contrast(adjust_saturation(image, 3), 10, 11)

\* with numpy the equalized luminance is computed and dropped: the result is
\* ImageEnhance.Brightness(img.copy()).enhance(1.2); without numpy it is a
\* contrast enhancement by 1.0 + intensity * 0.5, blended below intensity 1.0
apply_histogram_equalization(image, intensity, env) ==
    IF env.numpy THEN EnhanceBrightness(Copy(image), 12, 10)
    ELSE IF intensity < 10
         THEN Blend(image, EnhanceContrast(image, 20 + intensity, 20), intensity, 10)
         ELSE EnhanceContrast(image, 20 + intensity, 20)

\* apply_pencil_sketch on a one-pixel image p, where GaussianBlur and
\* FIND_EDGES have no neighbour to read and return the gray sample, and the
\* contrast enhancer blends the sample with itself. `noise` is the integer
\* part of the sample np.random.normal(0, 5) draws for the pixel.
PencilSample(p, intensity, env, noise) ==
    LET enhanced_edges == 255 - Luma(p)
        blend_factor == Min(100, intensity * 8)
        sketch == BlendSample(255, enhanced_edges, blend_factor, 100)
    IN  IF env.numpy
        THEN (sketch + CastUint8(noise, env.cast)) % 256
        ELSE sketch

apply_pencil_sketch(image, intensity, env, noise) ==
    MapPixels(image, LAMBDA p : <<PencilSample(p, intensity, env, noise),
                                  PencilSample(p, intensity, env, noise),
                                  PencilSample(p, intensity, env, noise)>>)

(***************************************************************************)
(* Geometry operations of image_utils.py                                   *)
(***************************************************************************)
\* ImageOps.mirror
flip_image_horizontal(image) ==
    MkImage(image.w, image.h, LAMBDA x, y : At(image, image.w - 1 - x, y))

\* ImageOps.flip
flip_image_vertical(image) ==
    MkImage(image.w, image.h, LAMBDA x, y : At(image, x, image.h - 1 - y))

\* image.rotate(-degrees, BICUBIC, expand=True); Pillow turns the multiples of
\* 90 degrees into exact transpositions
rotate_image(image, degrees) ==
    LET angle == (0 - degrees) % 360
    IN  IF angle = 0 THEN Copy(image)
        ELSE IF angle = 180
        THEN MkImage(image.w, image.h,
                     LAMBDA x, y : At(image, image.w - 1 - x, image.h - 1 - y))
        ELSE IF angle = 90
        THEN MkImage(image.h, image.w, LAMBDA x, y : At(image, image.w - 1 - y, x))
        ELSE MkImage(image.h, image.w, LAMBDA x, y : At(image, y, image.h - 1 - x))

\* Image.crop((left, top, right, bottom)) of a box inside the image
CropBox(image, left, top, right, bottom) ==
    MkImage(right - left, bottom - top, LAMBDA x, y : At(image, left + x, top + y))

\* crop_image that takes the last column and row, width - 1 and height - 1,
\* as the largest right and bottom
crop_image_last_index(image, left, top, right, bottom) ==
    LET l == Max(0, Min(left, image.w))
        t == Max(0, Min(top, image.h))
        r == Max(0, Min(right, image.w - 1))
        b == Max(0, Min(bottom, image.h - 1))
    IN  IF r <= l \/ b <= t THEN image ELSE CropBox(image, l, t, r, b)

crop_image(image, left, top, right, bottom) ==
    LET l == Max(0, Min(left, image.w))
        t == Max(0, Min(top, image.h))
        r == Max(0, Min(right, image.w))
        b == Max(0, Min(bottom, image.h))
    IN  IF r <= l \/ b <= t THEN image ELSE CropBox(image, l, t, r, b)

\* what Image.resize gives when it raises ValueError("height and width must be > 0")
Raised == [w |-> -1, h |-> -1, px |-> <<>>]

\* one LANCZOS pass along a line of n samples to m samples, for the lines the
\* model uses: n = m copies, n = 1 repeats the sample, and 2 -> 1 weighs both
\* samples by 1/2 and rounds half up (Pillow's 22 bit fixed point coefficients)
ResampleLine(line, m) ==
    LET n == Len(line)
    IN  IF m = n THEN line
        ELSE IF n = 1 THEN [i \in 1..m |-> line[1]]
        ELSE [i \in 1..m |->
                 <<(line[1][1] + line[2][1] + 1) \div 2,
                   (line[1][2] + line[2][2] + 1) \div 2,
                   (line[1][3] + line[2][3] + 1) \div 2>>]

\* image.resize((nw, nh), Image.LANCZOS): horizontal pass, then vertical pass
Resize(image, nw, nh) ==
    IF nw < 1 \/ nh < 1 THEN Raised
    ELSE IF nw = image.w /\ nh = image.h THEN Copy(image)
    ELSE LET rows == [y \in 0..(image.h - 1) |->
                        ResampleLine([x \in 1..image.w |-> At(image, x - 1, y)], nw)]
             cols == [x \in 0..(nw - 1) |->
                        ResampleLine([y \in 1..image.h |-> rows[y - 1][x + 1]], nh)]
         IN  MkImage(nw, nh, LAMBDA x, y : cols[x][y + 1])

\* the size resize_image asks Pillow for; ratio = min(width / ow, height / oh)
\* is held as a fraction and int() truncates
TargetSize(ow, oh, width, height, keep_aspect_ratio) ==
    IF keep_aspect_ratio
    THEN IF width * oh <= height * ow
         THEN <<(ow * width) \div ow, (oh * width) \div ow>>
         ELSE <<(ow * height) \div oh, (oh * height) \div oh>>
    ELSE <<width, height>>

\* resize_image that rejects negative sizes only: width < 0 or height < 0
resize_image_accepts_zero(image, width, height, keep_aspect_ratio) ==
    IF width < 0 \/ height < 0 THEN image
    ELSE LET size == TargetSize(image.w, image.h, width, height, keep_aspect_ratio)
         IN  Resize(image, size[1], size[2])

resize_image(image, width, height, keep_aspect_ratio) ==
    IF width <= 0 \/ height <= 0 THEN image
    ELSE LET size == TargetSize(image.w, image.h, width, height, keep_aspect_ratio)
         IN  Resize(image, size[1], size[2])

resize_by_percentage(image, percentage) ==
    IF percentage <= 0 THEN image
    ELSE Resize(image, (image.w * percentage) \div 100, (image.h * percentage) \div 100)

(***************************************************************************)
(* The filters of update_image that act pixel by pixel                     *)
(***************************************************************************)
\* the threshold filter with the cut point included in the white side
Threshold_at_or_above(img, intensity) ==
    LET threshold == (128 * intensity) \div 10
    IN  MapPixels(img, LAMBDA p : IF Luma(p) >= threshold
                                  THEN <<255, 255, 255>> ELSE <<0, 0, 0>>)

\* gray.point(lambda x: 255 if x > threshold else 0).convert('RGB')
Threshold(img, intensity) ==
    LET threshold == (128 * intensity) \div 10
    IN  MapPixels(img, LAMBDA p : IF Luma(p) > threshold
                                  THEN <<255, 255, 255>> ELSE <<0, 0, 0>>)

(***************************************************************************)
(* The filters of update_image that look at a pixel's neighbours           *)
(***************************************************************************)
\* the pixel at (x, y) with both coordinates moved into the image
AtEdge(img, x, y) ==
    At(img, Max(0, Min(img.w - 1, x)), Max(0, Min(img.h - 1, y)))

\* one sample of ImageFilter.SHARPEN: kernel (-2 .. 32 .. -2) / 16, offset 0,
\* rounded by adding 0.5, clipped to 0..255 and truncated
SharpenSample(img, x, y, c) ==
    LET S == At(img, x - 1, y - 1)[c] + At(img, x, y - 1)[c]
             + At(img, x + 1, y - 1)[c] + At(img, x - 1, y)[c]
             + At(img, x + 1, y)[c] + At(img, x - 1, y + 1)[c]
             + At(img, x, y + 1)[c] + At(img, x + 1, y + 1)[c]
        t == 32 * At(img, x, y)[c] - 2 * S + 8
    IN  IF t <= 0 THEN 0 ELSE IF t >= 255 * 16 THEN 255 ELSE t \div 16

\* img.filter(ImageFilter.SHARPEN): an image smaller than the kernel is
\* copied, and so is the one-pixel border of a larger one
Sharpen(img) ==
    IF img.w < 3 \/ img.h < 3 THEN img
    ELSE MkImage(img.w, img.h,
                 LAMBDA x, y :
                     IF x = 0 \/ y = 0 \/ x = img.w - 1 \/ y = img.h - 1
                     THEN At(img, x, y)
                     ELSE <<SharpenSample(img, x, y, 1), SharpenSample(img, x, y, 2),
                            SharpenSample(img, x, y, 3)>>)

\* for _ in range(n): img = img.filter(ImageFilter.SHARPEN)
RECURSIVE SharpenTimes(_, _)
SharpenTimes(img, n) == IF n <= 0 THEN img ELSE SharpenTimes(Sharpen(img), n - 1)

\* size=int(intensity * 5), intensity in tenths
WindowSize(intensity) == (intensity * 5) \div 10

\* the sample of rank `rank` (from 0, ascending) among the size x size window
\* around (x, y) of band c; the image is expanded by its edge pixels
RankSample(img, x, y, c, size, rank) ==
    LET r == size \div 2
        D == (-r..r) \X (-r..r)
        v(d) == AtEdge(img, x + d[1], y + d[2])[c]
    IN  CHOOSE s \in {v(d) : d \in D} :
            /\ Cardinality({d \in D : v(d) < s}) <= rank
            /\ rank < Cardinality({d \in D : v(d) <= s})

\* img.filter(ImageFilter.RankFilter(size, rank)), band by band; the filter
\* raises ValueError("bad filter size") unless size is odd
RankFilter(img, size, rank) ==
    IF img = Raised \/ size % 2 = 0 THEN Raised
    ELSE MkImage(img.w, img.h,
                 LAMBDA x, y : <<RankSample(img, x, y, 1, size, rank),
                                 RankSample(img, x, y, 2, size, rank),
                                 RankSample(img, x, y, 3, size, rank)>>)

MinFilter(img, size) == RankFilter(img, size, 0)

MedianFilter(img, size) == RankFilter(img, size, (size * size) \div 2)

MaxFilter(img, size) == RankFilter(img, size, size * size - 1)

\* one sample of ImageFilter.ModeFilter: the most frequent value (the lowest
\* of them) in the window cut to the image, if it occurs more than twice
ModeSample(img, x, y, c, size) ==
    LET r == size \div 2
        D == {d \in (-r..r) \X (-r..r) :
                /\ x + d[1] >= 0 /\ x + d[1] < img.w
                /\ y + d[2] >= 0 /\ y + d[2] < img.h}
        v(d) == At(img, x + d[1], y + d[2])[c]
        count(s) == Cardinality({d \in D : v(d) = s})
        maxpixel == CHOOSE s \in {v(d) : d \in D} :
                        \A u \in {v(d) : d \in D} :
                            count(u) < count(s) \/ (count(u) = count(s) /\ s <= u)
    IN  IF count(maxpixel) > 2 THEN maxpixel ELSE At(img, x, y)[c]

\* img.filter(ImageFilter.ModeFilter(size)), band by band
ModeFilter(img, size) ==
    MkImage(img.w, img.h,
            LAMBDA x, y : <<ModeSample(img, x, y, 1, size), ModeSample(img, x, y, 2, size),
                            ModeSample(img, x, y, 3, size)>>)

\* the branch of update_image taken for current_filter, on the adjusted img.
\* The filter ids without a case here are not used as current_filter in the
\* model; apply_sepia, apply_histogram_equalization and apply_pencil_sketch
\* are modelled as functions of their own, called directly.
FilterBranch(img, current_filter, intensity, s) ==
    CASE current_filter = "grayscale" -> MapPixels(img, Gray)
      [] current_filter = "invert" ->
            MapPixels(img, LAMBDA p : <<255 - p[1], 255 - p[2], 255 - p[3]>>)
      [] current_filter = "brightness" ->
            adjust_brightness_contrast(img, 5 * intensity, s.current_contrast)
      [] current_filter = "contrast" ->
            adjust_brightness_contrast(img, s.current_brightness, 10 + intensity)
      [] current_filter = "saturation" -> adjust_saturation(img, 10 + intensity)
      [] current_filter = "median_blur" -> MedianFilter(img, WindowSize(intensity))
      [] current_filter = "sharpen" ->
            IF intensity > 10
            THEN SharpenTimes(Sharpen(img), intensity \div 10)
            ELSE Sharpen(img)
      [] current_filter = "threshold" -> Threshold(img, intensity)
      [] current_filter = "oil_painting" ->
            EnhanceContrast(ModeFilter(img, WindowSize(intensity)), 15, 10)
      [] current_filter = "erosion" -> MinFilter(img, WindowSize(intensity))
      [] current_filter = "dilation" -> MaxFilter(img, WindowSize(intensity))
      [] current_filter = "opening" ->
            MaxFilter(MinFilter(img, WindowSize(intensity)), WindowSize(intensity))
      [] current_filter = "closing" ->
            MinFilter(MaxFilter(img, WindowSize(intensity)), WindowSize(intensity))
      [] OTHER -> img

(***************************************************************************)
(* ImageProcessorApp                                                       *)
(***************************************************************************)
\* an image object opened from a file whose pixel data cannot be decoded:
\* Image.open succeeded on the header, every later load() raises
Broken(file) == [w |-> file.w, h |-> file.h, px |-> <<>>]

IsBroken(img) == img.w > 0 /\ img.px = <<>>

\* the fields after __init__ and setup_ui; raised is set while an exception
\* travels up the handler and is cleared when Tk reports it
InitApp ==
    [original_image |-> None, processed_image |-> None,
     current_brightness |-> 0, current_contrast |-> 10,
     current_saturation |-> 10, current_hue |-> 0,
     brightness_slider |-> 0, contrast_slider |-> 10,
     saturation_slider |-> 10, hue_slider |-> 0,
     current_filter |-> "none", filter_intensity |-> 10,
     history |-> <<>>, history_position |-> -1,
     crop_mode |-> FALSE, crop_start_x |-> 0, crop_start_y |-> 0,
     real_time_preview |-> TRUE, preview_var |-> TRUE,
     status |-> "Tip", raised |-> FALSE]

\* add_to_history without its size limit
add_to_history_unbounded(s) ==
    IF s.processed_image # None
    THEN LET kept == IF s.history_position < Len(s.history) - 1
                     THEN SubSeq(s.history, 1, s.history_position + 1)
                     ELSE s.history
             added == Append(kept, Copy(s.processed_image))
         IN  [s EXCEPT !.history = added, !.history_position = Len(added) - 1]
    ELSE s

\* add_to_history dropping the newest entry, history[:-1], when over the limit
add_to_history_evict_newest(s) ==
    IF s.processed_image # None
    THEN LET kept == IF s.history_position < Len(s.history) - 1
                     THEN SubSeq(s.history, 1, s.history_position + 1)
                     ELSE s.history
             added == Append(kept, Copy(s.processed_image))
         IN  IF Len(added) > max_history
             THEN [s EXCEPT !.history = SubSeq(added, 1, Len(added) - 1),
                            !.history_position = Len(added) - 1 - 1]
             ELSE [s EXCEPT !.history = added, !.history_position = Len(added) - 1]
    ELSE s

\* add_to_history that keeps the entries after the cursor
add_to_history_no_truncate(s) ==
    IF s.processed_image # None
    THEN LET added == Append(s.history, Copy(s.processed_image))
         IN  IF Len(added) > max_history
             THEN [s EXCEPT !.history = Tail(added),
                            !.history_position = Len(added) - 1 - 1]
             ELSE [s EXCEPT !.history = added, !.history_position = Len(added) - 1]
    ELSE s

\* add_to_history without its test that there is a processed image
add_to_history_no_image(s) ==
    LET kept == IF s.history_position < Len(s.history) - 1
                THEN SubSeq(s.history, 1, s.history_position + 1)
                ELSE s.history
        added == Append(kept, Copy(s.processed_image))
    IN  IF Len(added) > max_history
        THEN [s EXCEPT !.history = Tail(added),
                       !.history_position = Len(added) - 1 - 1]
        ELSE [s EXCEPT !.history = added, !.history_position = Len(added) - 1]

add_to_history(s) ==
    IF s.processed_image # None
    THEN LET kept == IF s.history_position < Len(s.history) - 1
                     THEN SubSeq(s.history, 1, s.history_position + 1)
                     ELSE s.history
             added == Append(kept, Copy(s.processed_image))
         IN  IF Len(added) > max_history
             THEN [s EXCEPT !.history = Tail(added),
                            !.history_position = Len(added) - 1 - 1]
             ELSE [s EXCEPT !.history = added, !.history_position = Len(added) - 1]
    ELSE s

\* undo that moves the cursor and leaves the processed image
undo_keep_image(s) ==
    IF s.history_position > 0
    THEN [s EXCEPT !.history_position = s.history_position - 1,
                   !.status = "Undo: Reverted to previous state"]
    ELSE [s EXCEPT !.status = "Nothing to undo"]

\* undo guarded by history_position >= 0: at 0 the cursor becomes -1 and
\* history[-1] is the last entry
undo_at_zero(s) ==
    IF s.history_position >= 0
    THEN [s EXCEPT !.history_position = s.history_position - 1,
                   !.processed_image =
                       Copy(s.history[IF s.history_position > 0
                                      THEN s.history_position - 1 + 1
                                      ELSE Len(s.history)]),
                   !.status = "Undo: Reverted to previous state"]
    ELSE [s EXCEPT !.status = "Nothing to undo"]

\* undo that removes the entry it leaves
undo_pop(s) ==
    IF s.history_position > 0
    THEN [s EXCEPT !.history = SubSeq(s.history, 1, s.history_position),
                   !.history_position = s.history_position - 1,
                   !.processed_image = Copy(s.history[s.history_position - 1 + 1]),
                   !.status = "Undo: Reverted to previous state"]
    ELSE [s EXCEPT !.status = "Nothing to undo"]

undo(s) ==
    IF s.history_position > 0
    THEN [s EXCEPT !.history_position = s.history_position - 1,
                   !.processed_image = Copy(s.history[s.history_position - 1 + 1]),
                   !.status = "Undo: Reverted to previous state"]
    ELSE [s EXCEPT !.status = "Nothing to undo"]

\* redo guarded by history_position < len(history): on the last entry the
\* cursor moves past it and history[history_position] raises IndexError
redo_past_tail(s) ==
    IF s.history_position < Len(s.history) - 1
    THEN [s EXCEPT !.history_position = s.history_position + 1,
                   !.processed_image = Copy(s.history[s.history_position + 1 + 1]),
                   !.status = "Redo: Applied next state"]
    ELSE IF s.history_position < Len(s.history)
    THEN [s EXCEPT !.history_position = s.history_position + 1, !.raised = TRUE]
    ELSE [s EXCEPT !.status = "Nothing to redo"]

redo(s) ==
    IF s.history_position < Len(s.history) - 1
    THEN [s EXCEPT !.history_position = s.history_position + 1,
                   !.processed_image = Copy(s.history[s.history_position + 1 + 1]),
                   !.status = "Redo: Applied next state"]
    ELSE [s EXCEPT !.status = "Nothing to redo"]

\* steps 1 to 3 of update_image and the selected filter, from the original
SaturationStep(img, s) ==
    IF s.current_saturation # 10
    THEN adjust_saturation(img, s.current_saturation) ELSE img

HueStep(img, s) ==
    IF s.current_hue # 0 THEN adjust_hue(img, s.current_hue) ELSE img

Pipeline(s) ==
    FilterBranch(
        HueStep(SaturationStep(
                    adjust_brightness_contrast(Copy(s.original_image),
                                               s.current_brightness,
                                               s.current_contrast), s), s),
        s.current_filter, s.filter_intensity, s)

\* the rest of a handler after a call: skipped when the call raised
IfOk(s, Rest(_)) == IF s.raised THEN s ELSE Rest(s)

\* the tail of update_image: history is written unless the caller is "history"
RecordUpdate(s, args) ==
    IF args # <<>> /\ args[1] # "history" THEN add_to_history(s) ELSE s

\* the end of update_image once the filter branch returned img; a filter
\* that raised ends the handler with the processed image as it was
StoreUpdate(s, img, args) ==
    IF img = Raised THEN [s EXCEPT !.raised = TRUE]
    ELSE RecordUpdate([s EXCEPT !.processed_image = img,
                                !.status = "Brightness, Contrast, ..."], args)

\* update_image that runs for every caller, whatever the preview toggle says
update_image_ignore_preview(s, args) ==
    IF s.original_image = None THEN s
    ELSE LET s1 == [s EXCEPT !.current_brightness = s.brightness_slider,
                             !.current_contrast = s.contrast_slider,
                             !.current_saturation = s.saturation_slider,
                             !.current_hue = s.hue_slider]
         IN  IF s1 = s /\ args = <<>> THEN s
             ELSE IF IsBroken(s1.original_image) THEN [s1 EXCEPT !.raised = TRUE]
             ELSE IF s1.current_filter # "none"
             THEN StoreUpdate(s1, Pipeline(s1), args)
             ELSE s1

\* update_image(*args): args is <<>>, <<"force">> or <<"value">> (a slider
\* callback receives the slider's value)
update_image(s, args) ==
    IF s.original_image = None THEN s
    ELSE IF ~s.real_time_preview /\ args # <<>> /\ args[1] # "force" THEN s
    ELSE LET adjustments_changed ==
                 \/ s.brightness_slider # s.current_brightness
                 \/ s.contrast_slider # s.current_contrast
                 \/ s.saturation_slider # s.current_saturation
                 \/ s.hue_slider # s.current_hue
                 \/ (args # <<>> /\ args[1] = "force")
             s1 == [s EXCEPT !.current_brightness = s.brightness_slider,
                             !.current_contrast = s.contrast_slider,
                             !.current_saturation = s.saturation_slider,
                             !.current_hue = s.hue_slider]
         IN  IF ~adjustments_changed /\ args = <<>> THEN s
             ELSE IF IsBroken(s1.original_image) THEN [s1 EXCEPT !.raised = TRUE]
             ELSE IF s1.current_filter # "none"
             THEN StoreUpdate(s1, Pipeline(s1), args)
             ELSE s1

apply_filter(s, filter_name) ==
    IF s.processed_image # None
    THEN IfOk(update_image([s EXCEPT !.current_filter = filter_name], <<"force">>),
              LAMBDA s1 : [add_to_history(s1) EXCEPT !.status = "Applied filter"])
    ELSE s

reset_filter(s) ==
    IF s.processed_image # None
    THEN IfOk(update_image([s EXCEPT !.current_filter = "none",
                                     !.filter_intensity = 10], <<"force">>),
              LAMBDA s1 : [add_to_history(s1) EXCEPT !.status = "Filters reset"])
    ELSE s

\* the intensity Scale writes its variable, then calls the handler
update_filter_intensity(s) ==
    IF s.processed_image # None /\ s.current_filter # "none"
    THEN IfOk(update_image(s, <<"force">>), LAMBDA s1 : add_to_history(s1))
    ELSE s

reset_adjustments(s, update) ==
    LET s1 == [s EXCEPT !.brightness_slider = 0, !.contrast_slider = 10,
                        !.saturation_slider = 10, !.hue_slider = 0,
                        !.filter_intensity = 10, !.current_filter = "none",
                        !.crop_mode = FALSE]
    IN  IF update
        THEN IfOk(update_image(s1, <<"force">>),
                  LAMBDA s2 : [add_to_history([s2 EXCEPT !.history = <<>>,
                                                         !.history_position = -1])
                                  EXCEPT !.status = "All adjustments reset to default"])
        ELSE s1

\* load_image_from_path that adds the loaded image to the history it finds
load_image_keep_history(s, file, failAt) ==
    IF failAt = "open" THEN [s EXCEPT !.status = "Error loading image"]
    ELSE LET s1 == [s EXCEPT !.original_image =
                                 IF failAt = "ok" THEN file ELSE Broken(file)]
         IN  IF failAt = "convert" THEN [s1 EXCEPT !.status = "Error loading image"]
             ELSE IfOk(reset_adjustments(s1, FALSE),
                       LAMBDA s2 :
                         IF failAt = "display"
                         THEN [s2 EXCEPT !.status = "Error loading image"]
                         ELSE IfOk(update_image([s2 EXCEPT !.processed_image =
                                                     Copy(s2.original_image)],
                                                <<"force">>),
                                   LAMBDA s4 :
                                     [add_to_history(s4)
                                         EXCEPT !.status = "Brightness, Contrast, ..."]))

\* load_image_from_path on a file that decodes to the RGB image file;
\* failAt names the statement that raises: "open" (Image.open), "convert"
\* (convert('RGB') of another mode), "display" (the first use of the pixels
\* of an RGB file), or "ok"
load_image_from_path(s, file, failAt) ==
    IF failAt = "open" THEN [s EXCEPT !.status = "Error loading image"]
    ELSE LET s1 == [s EXCEPT !.original_image =
                                 IF failAt = "ok" THEN file ELSE Broken(file)]
         IN  IF failAt = "convert" THEN [s1 EXCEPT !.status = "Error loading image"]
             ELSE IfOk(reset_adjustments(s1, FALSE),
                       LAMBDA s2 :
                         IF failAt = "display"
                         THEN [s2 EXCEPT !.status = "Error loading image"]
                         ELSE IfOk(update_image([s2 EXCEPT !.processed_image =
                                                     Copy(s2.original_image)],
                                                <<"force">>),
                                   LAMBDA s4 :
                                     [add_to_history([s4 EXCEPT !.history = <<>>,
                                                        !.history_position = -1])
                                         EXCEPT !.status = "Brightness, Contrast, ..."]))

RECURSIVE PresetFilters(_, _, _)
\* the loop of apply_filter_preset from its i-th (filter, intensity) pair on
PresetFilters(s, filters, i) ==
    IF i > Len(filters) \/ s.raised THEN s
    ELSE PresetFilters(update_image([s EXCEPT !.current_filter = filters[i][1],
                                              !.filter_intensity = filters[i][2]],
                                    <<"force">>),
                       filters, i + 1)

\* apply_filter_preset: original_image.copy() raises on a broken image; after
\* the loop display_image() is called without its arguments and raises
\* TypeError, so the add_to_history that follows is never reached
apply_filter_preset(s, filters) ==
    IF s.processed_image = None THEN s
    ELSE LET s1 == [s EXCEPT !.current_filter = "none"]
         IN  IF IsBroken(s1.original_image) THEN [s1 EXCEPT !.raised = TRUE]
             ELSE [PresetFilters(s1, filters, 1) EXCEPT !.raised = TRUE]

app_rotate_image(s, degrees) ==
    IF s.processed_image # None
    THEN [add_to_history([s EXCEPT !.processed_image =
                                       rotate_image(s.processed_image, degrees)])
             EXCEPT !.status = "Image rotated"]
    ELSE s

\* flip_horizontal that flips the original image as well
flip_horizontal_original(s) ==
    IF s.processed_image # None
    THEN [add_to_history([s EXCEPT !.processed_image =
                                       flip_image_horizontal(s.processed_image),
                                   !.original_image =
                                       flip_image_horizontal(s.original_image)])
             EXCEPT !.status = "Image flipped horizontally"]
    ELSE s

flip_horizontal(s) ==
    IF s.processed_image # None
    THEN [add_to_history([s EXCEPT !.processed_image =
                                       flip_image_horizontal(s.processed_image)])
             EXCEPT !.status = "Image flipped horizontally"]
    ELSE s

flip_vertical(s) ==
    IF s.processed_image # None
    THEN [add_to_history([s EXCEPT !.processed_image =
                                       flip_image_vertical(s.processed_image)])
             EXCEPT !.status = "Image flipped vertically"]
    ELSE s

\* the Checkbutton flips preview_var, then calls the handler
toggle_preview(s) ==
    LET s1 == [s EXCEPT !.preview_var = ~s.preview_var,
                        !.real_time_preview = ~s.preview_var]
    IN  IF s1.real_time_preview
        THEN IfOk(update_image(s1, <<"force">>),
                  LAMBDA s2 : [s2 EXCEPT !.status = "Real-time preview enabled"])
        ELSE [s1 EXCEPT !.status = "Real-time preview disabled"]

\* apply_resize with numeric entries: method "pixels" reads width, height and
\* keep_aspect, method "percentage" reads percentage
apply_resize(s, method, width, height, keep_aspect, percentage) ==
    IF s.processed_image = None THEN s
    ELSE IF method = "pixels" /\ (width <= 0 \/ height <= 0)
    THEN [s EXCEPT !.status = "Invalid dimensions: Width and height must be positive"]
    ELSE IF method # "pixels" /\ percentage <= 0
    THEN [s EXCEPT !.status = "Invalid percentage: Must be positive"]
    ELSE LET img == IF method = "pixels"
                    THEN resize_image(s.processed_image, width, height, keep_aspect)
                    ELSE resize_by_percentage(s.processed_image, percentage)
         IN  IF img = Raised
             THEN [s EXCEPT !.status = "Invalid dimensions: Please enter numeric values"]
             ELSE [add_to_history([s EXCEPT !.processed_image = img])
                      EXCEPT !.status = "Image resized"]

toggle_crop_mode(s) ==
    [s EXCEPT !.crop_mode = ~s.crop_mode,
              !.status = IF ~s.crop_mode THEN "Crop mode active"
                         ELSE "Crop mode deactivated"]

on_mouse_down(s, x, y) ==
    IF s.crop_mode /\ s.processed_image # None
    THEN [s EXCEPT !.crop_start_x = x, !.crop_start_y = y]
    ELSE s

\* int(c * (img_width / canvas_width)) for the coordinates c >= 0 of the events
on_mouse_up(s, x, y) ==
    IF s.crop_mode /\ s.processed_image # None
    THEN LET img_width == s.processed_image.w
             img_height == s.processed_image.h
             sx == (s.crop_start_x * img_width) \div canvas_width
             sy == (s.crop_start_y * img_height) \div canvas_height
             ex == (x * img_width) \div canvas_width
             ey == (y * img_height) \div canvas_height
             s1 == [s EXCEPT !.processed_image =
                                 crop_image(s.processed_image, Min(sx, ex), Min(sy, ey),
                                            Max(sx, ex), Max(sy, ey))]
             s2 == [add_to_history(s1) EXCEPT !.status = "Image cropped",
                                             !.crop_mode = FALSE]
         IN  update_image(s2, <<>>)
    ELSE s

\* a slider callback: the Scale holds the new value when update_image runs
slider_changed(s, slider, value) ==
    update_image(CASE slider = "brightness" -> [s EXCEPT !.brightness_slider = value]
                   [] slider = "contrast" -> [s EXCEPT !.contrast_slider = value]
                   [] slider = "saturation" -> [s EXCEPT !.saturation_slider = value]
                   [] slider = "hue" -> [s EXCEPT !.hue_slider = value],
                 <<"value">>)

\* Tk reports an exception that leaves a callback and goes on
Handled(s) == [s EXCEPT !.raised = FALSE]

(***************************************************************************)
(* Inputs                                                                  *)
(***************************************************************************)
Files == {ImgA, ImgB}

FailStages == {"open", "convert", "display"}

\* slider callbacks: <<slider, value>>; values a Scale can hold whose floats
\* are exact (contrast 2.0, saturation 0.0 and 1.0, brightness factor 1.5)
SliderInputs ==
    {<<"brightness", 0>>, <<"brightness", 50>>, <<"contrast", 20>>,
     <<"saturation", 0>>, <<"saturation", 10>>, <<"hue", 120>>}

FilterNames == {"invert", "threshold", "brightness"}

Intensities == {5, 10}

Degrees == {-90, 90}

\* <<method, width, height, keep_aspect, percentage>>
ResizeInputs ==
    {<<"pixels", 1, 1, FALSE, 100>>, <<"pixels", 2, 2, TRUE, 100>>,
     <<"pixels", 1, 1, TRUE, 100>>, <<"pixels", 0, 1, FALSE, 100>>,
     <<"percentage", 0, 0, TRUE, 50>>, <<"percentage", 0, 0, TRUE, 100>>,
     <<"percentage", 0, 0, TRUE, 0>>}

\* the presets "Dramatic" and "Vibrant": <<filter, intensity>> pairs
Presets ==
    {<<<<"contrast", 15>>, <<"brightness", 8>>>>,
     <<<<"saturation", 15>>, <<"brightness", 12>>>>}

MouseDownAt == {<<0, 0>>, <<2, 0>>}

\* the samples of the one-pixel images passed to the colour functions
Samples == {0, 100, 255}

ImgC == [w |-> 2, h |-> 2,
         px |-> <<<<255, 0, 0>>, <<0, 255, 0>>, <<0, 0, 255>>, <<90, 90, 90>>>>]

\* RGB images passed to adjust_brightness_contrast, adjust_saturation, adjust_hue
ColourImages ==
    {[w |-> 1, h |-> 1, px |-> <<<<r, g, b>>>>] : r \in Samples, g \in Samples, b \in Samples}
        \cup {ImgA, ImgB, ImgC}

\* the one-pixel images among them
OnePixelImages == {I \in ColourImages : I.w = 1 /\ I.h = 1}

\* intensities passed to apply_histogram_equalization: its documented range
\* 0.0 to 1.0 and the maximum of the intensity Scale, in tenths
EqualizeIntensities == {0, 5, 10, 20}

\* intensities passed to apply_pencil_sketch, in tenths
SketchIntensities == {10, 15, 20}

\* integer parts of samples of np.random.normal(0, 5)
NoiseValues == {-3, 0, 4}

\* an image of w x h pixels that are all different
Grid(w, h) == MkImage(w, h, LAMBDA x, y : <<100 * x + 1, 100 * y + 2, 50>>)

\* RGB images passed to crop_image, resize_image, resize_by_percentage
GeomImages == {Grid(1, 1), Grid(2, 1), Grid(1, 2), Grid(2, 2), ImgA}

CropCoords == -1..3

\* <<width, height>> asked of resize_image
ResizeDims ==
    ({-1, 0, 1, 2} \X {-1, 0, 1, 2}) \cup {<<0, 100>>, <<100, 0>>}

Percentages == {-50, 0, 40, 50, 100}

BrightnessValues == {-50, 0, 50}

ContrastValues == {5, 10, 20}

SaturationValues == {0, 10, 20}

HueShifts == {0, 60, 119, 120, 180, 239, 240, 300, 359, 360}

\* resize requests the handler rejects: <<method, width, height, keep_aspect, percentage>>
InvalidResizeInputs ==
    {<<"pixels", 0, 100, TRUE, 100>>, <<"pixels", 100, 0, FALSE, 100>>,
     <<"pixels", -1, 1, TRUE, 100>>, <<"percentage", 0, 0, TRUE, 0>>,
     <<"percentage", 0, 0, TRUE, -50>>}

MouseUpAt == {<<4, 2>>, <<2, 2>>, <<0, 0>>}

\* a solid mid-gray image, grays around the middle, and a 3 x 3 image whose
\* centre differs from its border
SolidGray == MkImage(2, 1, LAMBDA x, y : <<128, 128, 128>>)

GrayRamp == MkImage(3, 1, LAMBDA x, y : <<127 + x, 127 + x, 127 + x>>)

ImgS ==
    MkImage(3, 3, LAMBDA x, y : IF x = 1 /\ y = 1 THEN <<100, 60, 200>>
                                ELSE <<96, 64, 200>>)

FilterImages == {SolidGray, GrayRamp, ImgS, ImgA}

\* filter ids of the filter buttons whose branch takes the intensity
DirectFilters ==
    {"threshold", "sharpen", "median_blur", "oil_painting", "erosion",
     "dilation", "opening", "closing"}

\* the intensity Scale: 0.1 to 2.0 in steps of 0.1, in tenths
IntensityRange == 1..20

(***************************************************************************)
(* The state machine: one step is one handler run to its end               *)
(***************************************************************************)
\* no function of image_utils was called yet
NoCall ==
    [fn |-> "none", image |-> None, args |-> <<>>, result |-> None,
     env |-> AnyBuild]

Init ==
    /\ app = InitApp
    /\ prev = InitApp
    /\ nops = 0
    /\ lastOp = "init"
    /\ pushlog = <<>>
    /\ call = NoCall

\* the handler named op ran on app and left the object in state s; log is
\* the sequence of images the steps so far were expected to record
StepLog(op, bound, s, log) ==
    /\ nops < bound
    /\ app' = Handled(s)
    /\ prev' = app
    /\ nops' = nops + 1
    /\ lastOp' = op
    /\ pushlog' = log
    /\ call' = call

Step(op, bound, s) == StepLog(op, bound, s, pushlog)

Load(bound, files) ==
    \E f \in files : Step("load", bound, load_image_from_path(app, f, "ok"))

LoadFail(bound, files, stages) ==
    \E f \in files, st \in stages :
        Step("load_fail", bound, load_image_from_path(app, f, st))

SliderChange(bound, inputs) ==
    \E sv \in inputs : Step("slider", bound, slider_changed(app, sv[1], sv[2]))

ApplyFilter(bound, names) ==
    \E f \in names : Step("apply_filter", bound, apply_filter(app, f))

ResetFilter(bound) == Step("reset_filter", bound, reset_filter(app))

FilterIntensity(bound, values) ==
    \E i \in values :
        Step("intensity", bound,
             update_filter_intensity([app EXCEPT !.filter_intensity = i]))

ApplyPreset(bound, presets) ==
    \E p \in presets : Step("apply_preset", bound, apply_filter_preset(app, p))

Reset(bound) == Step("reset", bound, reset_adjustments(app, TRUE))

Rotate(bound, degrees) ==
    \E d \in degrees : Step("rotate", bound, app_rotate_image(app, d))

FlipH(bound) == Step("flip_horizontal", bound, flip_horizontal(app))

FlipV(bound) == Step("flip_vertical", bound, flip_vertical(app))

TogglePreview(bound) == Step("toggle_preview", bound, toggle_preview(app))

ApplyResize(bound, inputs) ==
    \E r \in inputs :
        Step("resize", bound, apply_resize(app, r[1], r[2], r[3], r[4], r[5]))

ToggleCrop(bound) == Step("toggle_crop", bound, toggle_crop_mode(app))

MouseDown(bound, points) ==
    \E p \in points : Step("mouse_down", bound, on_mouse_down(app, p[1], p[2]))

MouseUp(bound, points) ==
    \E p \in points : Step("mouse_up", bound, on_mouse_up(app, p[1], p[2]))

Undo(bound) == Step("undo", bound, undo(app))

Redo(bound) == Step("redo", bound, redo(app))

Next ==
    \/ Load(MaxOps, Files)
    \/ LoadFail(MaxOps, Files, FailStages)
    \/ SliderChange(MaxOps, SliderInputs)
    \/ ApplyFilter(MaxOps, FilterNames)
    \/ ResetFilter(MaxOps)
    \/ FilterIntensity(MaxOps, Intensities)
    \/ ApplyPreset(MaxOps, Presets)
    \/ Reset(MaxOps)
    \/ Rotate(MaxOps, Degrees)
    \/ FlipH(MaxOps)
    \/ FlipV(MaxOps)
    \/ TogglePreview(MaxOps)
    \/ ApplyResize(MaxOps, ResizeInputs)
    \/ ToggleCrop(MaxOps)
    \/ MouseDown(MaxOps, MouseDownAt)
    \/ MouseUp(MaxOps, MouseUpAt)
    \/ Undo(MaxOps)
    \/ Redo(MaxOps)

Spec == Init /\ [][Next]_vars

(***************************************************************************)
(* Long runs over few inputs: the history fills up and evicts              *)
(***************************************************************************)
NextHist ==
    \/ Load(MaxOpsHist, {ImgA})
    \/ LoadFail(MaxOpsHist, {ImgB}, {"display"})
    \/ SliderChange(MaxOpsHist, {<<"brightness", 0>>, <<"brightness", 50>>})
    \/ ApplyFilter(MaxOpsHist, {"invert"})
    \/ ResetFilter(MaxOpsHist)
    \/ FilterIntensity(MaxOpsHist, {5})
    \/ Reset(MaxOpsHist)
    \/ Rotate(MaxOpsHist, {90})
    \/ FlipH(MaxOpsHist)
    \/ ApplyResize(MaxOpsHist, {<<"pixels", 1, 1, FALSE, 100>>})
    \/ Undo(MaxOpsHist)
    \/ Redo(MaxOpsHist)

SpecHist == Init /\ [][NextHist]_vars

(***************************************************************************)
(* A load into the empty session, then geometry edits in a row; pushlog    *)
(* holds the images these steps are expected to record, oldest first       *)
(***************************************************************************)
PushLoad ==
    /\ app.original_image = None
    /\ \E f \in Files :
           StepLog("load", MaxPushOps, load_image_from_path(app, f, "ok"), <<f>>)

PushRotate ==
    /\ app.processed_image # None
    /\ \E d \in {90} :
           StepLog("rotate", MaxPushOps, app_rotate_image(app, d),
                   Append(pushlog, rotate_image(app.processed_image, d)))

PushFlipH ==
    /\ app.processed_image # None
    /\ StepLog("flip_horizontal", MaxPushOps, flip_horizontal(app),
               Append(pushlog, flip_image_horizontal(app.processed_image)))

NextPush == PushLoad \/ PushRotate \/ PushFlipH

SpecPush == Init /\ [][NextPush]_vars

(***************************************************************************)
(* Direct calls of the functions of image_utils.py on small images, next   *)
(* to a session in which an image is loaded and resized                    *)
(***************************************************************************)
\* the functions keep no state, so a run makes one direct call
NotCalled == call = NoCall

\* fn was called on image with args in the build env and returned result;
\* the session stays
CalledIn(env, fn, image, args, result) ==
    /\ call = NoCall
    /\ call' = [fn |-> fn, image |-> image, args |-> args, result |-> result,
                env |-> env]
    /\ UNCHANGED <<app, prev, lastOp, nops, pushlog>>

\* a call of a function that does not look at the build
Called(fn, image, args, result) == CalledIn(AnyBuild, fn, image, args, result)

CallCrop ==
    /\ NotCalled
    /\ \E I \in GeomImages, l \in CropCoords, t \in CropCoords,
          r \in CropCoords, b \in CropCoords :
           Called("crop_image", I, <<l, t, r, b>>, crop_image(I, l, t, r, b))

CallResize ==
    /\ NotCalled
    /\ \E I \in GeomImages, d \in ResizeDims, keep \in BOOLEAN :
           Called("resize_image", I, <<d[1], d[2], keep>>,
                  resize_image(I, d[1], d[2], keep))

CallResizeByPercentage ==
    /\ NotCalled
    /\ \E I \in GeomImages, p \in Percentages :
           Called("resize_by_percentage", I, <<p>>, resize_by_percentage(I, p))

CallBrightnessContrast ==
    /\ NotCalled
    /\ \E I \in ColourImages, b \in BrightnessValues, c \in ContrastValues :
           Called("adjust_brightness_contrast", I, <<b, c>>,
                  adjust_brightness_contrast(I, b, c))

CallSaturation ==
    /\ NotCalled
    /\ \E I \in ColourImages, f \in SaturationValues :
           Called("adjust_saturation", I, <<f>>, adjust_saturation(I, f))

CallHue ==
    /\ NotCalled
    /\ \E I \in ColourImages, shift \in HueShifts :
           Called("adjust_hue", I, <<shift>>, adjust_hue(I, shift))

\* the filter branch of update_image on an image, at default adjustments
CallFilter ==
    /\ NotCalled
    /\ \E I \in FilterImages, f \in DirectFilters, i \in IntensityRange :
           Called("filter", I, <<f, i>>, FilterBranch(I, f, i, InitApp))

CallSepia ==
    /\ NotCalled
    /\ \E I \in ColourImages, env \in Builds :
           CalledIn(env, "apply_sepia", I, <<>>, apply_sepia(I, env))

CallHistogramEqualization ==
    /\ NotCalled
    /\ \E I \in ColourImages, i \in EqualizeIntensities, env \in Builds :
           CalledIn(env, "apply_histogram_equalization", I, <<i>>,
                    apply_histogram_equalization(I, i, env))

CallPencilSketch ==
    /\ NotCalled
    /\ \E I \in OnePixelImages, i \in SketchIntensities, env \in Builds,
          noise \in NoiseValues :
           CalledIn(env, "apply_pencil_sketch", I, <<i>>,
                    apply_pencil_sketch(I, i, env, noise))

\* apply_pencil_sketch called once more on the same image with the same
\* intensity, in the same build
RepeatPencilSketch ==
    /\ call.fn = "apply_pencil_sketch"
    /\ \E noise \in NoiseValues :
           call' = [call EXCEPT !.result =
                        apply_pencil_sketch(call.image, call.args[1], call.env, noise)]
    /\ UNCHANGED <<app, prev, lastOp, nops, pushlog>>

\* apply_resize on entries the handler rejects
ApplyResizeInvalid(bound, inputs) ==
    \E r \in inputs :
        Step("resize_invalid", bound, apply_resize(app, r[1], r[2], r[3], r[4], r[5]))

NextUtil ==
    \/ CallCrop
    \/ CallResize
    \/ CallResizeByPercentage
    \/ CallBrightnessContrast
    \/ CallSaturation
    \/ CallHue
    \/ CallFilter
    \/ CallSepia
    \/ CallHistogramEqualization
    \/ CallPencilSketch
    \/ RepeatPencilSketch
    \/ Load(MaxUtilOps, {ImgA})
    \/ ApplyResize(MaxUtilOps, {<<"pixels", 1, 1, FALSE, 100>>})
    \/ ApplyResizeInvalid(MaxUtilOps, InvalidResizeInputs)

SpecUtil == Init /\ [][NextUtil]_vars

(***************************************************************************)
(* Vocabulary of the claims                                                *)
(***************************************************************************)
\* an image is loaded and its pixels are there
HasImage(s) ==
    /\ s.original_image # None
    /\ ~IsBroken(s.original_image)
    /\ s.processed_image # None

\* the handlers that make one geometry edit and record it once
SinglePushOps == {"rotate", "flip_horizontal", "flip_vertical"}

DefaultAdjustments(s) ==
    /\ s.current_brightness = 0 /\ s.current_contrast = 10
    /\ s.current_saturation = 10 /\ s.current_hue = 0
    /\ s.brightness_slider = 0 /\ s.contrast_slider = 10
    /\ s.saturation_slider = 10 /\ s.hue_slider = 0
    /\ s.current_filter = "none"

RECURSIVE Times(_, _, _)
\* handler F(_) run n times from s
Times(F(_), n, s) == IF n = 0 THEN s ELSE Times(F, n - 1, F(s))

\* the states a run of undos followed by a run of redos can reach from s
UndoRedoReach(s) ==
    {Times(redo, j, Times(undo, k, s)) : k \in 0..max_history, j \in 0..max_history}

(***************************************************************************)
(* C1: whatever handlers ran, the history holds at most max_history        *)
(* entries, and when it is not empty the cursor is an index into it.       *)
(***************************************************************************)
C1_HistoryBounded ==
    /\ Len(app.history) <= max_history
    /\ app.history # <<>> =>
           0 <= app.history_position /\ app.history_position < Len(app.history)

\* the history is full and the loaded image, recorded first, was evicted
C1_Witness ==
    /\ Len(app.history) = max_history
    /\ app.history_position = max_history - 1
    /\ HasImage(app)
    /\ \A i \in 1..Len(app.history) : app.history[i] # app.original_image

(***************************************************************************)
(* C2: after max_history + 1 pushes in a row into an empty history, the    *)
(* history holds the last max_history of them in push order (the first one *)
(* is gone) and the cursor is on the newest, index max_history - 1.        *)
(***************************************************************************)
C2_EvictOldest ==
    Len(pushlog) = max_history + 1 =>
        /\ Len(app.history) = max_history
        /\ app.history = Tail(pushlog)
        /\ app.history_position = max_history - 1

C2_Witness ==
    /\ Len(pushlog) = max_history + 1
    /\ Len(app.history) = max_history
    /\ pushlog[1] # pushlog[2]

(***************************************************************************)
(* C3: a push made with the cursor below the tail drops the entries after  *)
(* the cursor, appends the new snapshot and puts the cursor on it; no run  *)
(* of undo and redo brings a dropped entry back, and a redo right after is *)
(* a "Nothing to redo" no-op.                                              *)
(***************************************************************************)
C3_PushTruncates ==
    (/\ lastOp \in SinglePushOps
     /\ prev.processed_image # None
     /\ prev.history_position < Len(prev.history) - 1) =>
        /\ app.history = Append(SubSeq(prev.history, 1, prev.history_position + 1),
                                app.processed_image)
        /\ app.history_position = Len(app.history) - 1
        /\ redo(app) = [app EXCEPT !.status = "Nothing to redo"]
        /\ \A t \in UndoRedoReach(app) :
               /\ t.history = app.history
               /\ \E i \in 1..Len(app.history) : t.processed_image = app.history[i]

\* push(A); push(B); undo(); push(C) left [A, C], with B different from both
C3_Witness ==
    /\ lastOp \in SinglePushOps
    /\ Len(prev.history) = 2 /\ prev.history_position = 0
    /\ Len(app.history) = 2 /\ app.history_position = 1
    /\ app.history[1] = prev.history[1]
    /\ prev.history[2] # app.history[1] /\ prev.history[2] # app.history[2]

(***************************************************************************)
(* C4: with the cursor above 0, undo moves it down by one and shows the    *)
(* entry there; with the cursor below the last index, redo moves it up by  *)
(* one and shows the entry there; a redo after an undo is back on the      *)
(* cursor and the entry the undo left.                                     *)
(***************************************************************************)
C4_UndoRedoMove ==
    /\ (lastOp = "undo" /\ prev.history_position > 0) =>
           /\ app.history_position = prev.history_position - 1
           /\ app.processed_image = prev.history[app.history_position + 1]
           /\ redo(app).history_position = prev.history_position
           /\ redo(app).processed_image = prev.history[prev.history_position + 1]
    /\ (lastOp = "redo" /\ prev.history_position < Len(prev.history) - 1) =>
           /\ app.history_position = prev.history_position + 1
           /\ app.processed_image = prev.history[app.history_position + 1]

\* a redo went up to an entry that differs from the one it left
C4_Witness ==
    /\ lastOp = "redo"
    /\ prev.history_position >= 0
    /\ app.history_position = prev.history_position + 1
    /\ app.processed_image # prev.processed_image

(***************************************************************************)
(* C5: undo with an empty history or with the cursor at 0 changes nothing  *)
(* but the status, which reads "Nothing to undo".                          *)
(***************************************************************************)
C5_UndoNoop ==
    (lastOp = "undo" /\ (prev.history = <<>> \/ prev.history_position = 0)) =>
        app = [prev EXCEPT !.status = "Nothing to undo"]

\* undo at index 0 of a history that has later entries
C5_Witness ==
    /\ lastOp = "undo"
    /\ prev.history_position = 0
    /\ Len(prev.history) > 1
    /\ prev.processed_image # prev.history[Len(prev.history)]

(***************************************************************************)
(* C6: redo with the cursor on the last entry, or with an empty history,   *)
(* changes nothing but the status, which reads "Nothing to redo".          *)
(***************************************************************************)
C6_RedoNoop ==
    (lastOp = "redo" /\ prev.history_position = Len(prev.history) - 1) =>
        app = [prev EXCEPT !.status = "Nothing to redo"]

\* redo on the last of several entries
C6_Witness ==
    /\ lastOp = "redo"
    /\ Len(prev.history) > 1
    /\ prev.history_position = Len(prev.history) - 1

(***************************************************************************)
(* C7: undo and redo leave the entries of the history as they are: only    *)
(* the cursor, the processed image and the status change, and when the     *)
(* cursor moved the processed image is the entry under it.                 *)
(***************************************************************************)
C7_UndoRedoFrame ==
    lastOp \in {"undo", "redo"} =>
        /\ app = [prev EXCEPT !.history_position = app.history_position,
                              !.processed_image = app.processed_image,
                              !.status = app.status]
        /\ app.history_position # prev.history_position =>
               app.processed_image = app.history[app.history_position + 1]

\* an undo that moved the cursor off the tail of the history
C7_Witness ==
    /\ lastOp = "undo"
    /\ app.history_position = prev.history_position - 1
    /\ Len(app.history) > 2

(***************************************************************************)
(* C8: after a successful load, from any state, the processed image is the *)
(* newly decoded original, the adjustments are 0, 1.0, 1.0, 0 with filter  *)
(* "none", and the history is the loaded image alone with the cursor at 0. *)
(***************************************************************************)
C8_LoadGivesLoaded ==
    lastOp = "load" =>
        /\ app.original_image \in Files
        /\ app.processed_image = app.original_image
        /\ DefaultAdjustments(app)
        /\ app.history = <<app.original_image>>
        /\ app.history_position = 0

\* a load over an edited session: another image, a filter, several entries
C8_Witness ==
    /\ lastOp = "load"
    /\ HasImage(prev)
    /\ prev.original_image # app.original_image
    /\ prev.processed_image # prev.original_image
    /\ prev.current_filter # "none"
    /\ Len(prev.history) > 1

(***************************************************************************)
(* C9: reset with an image loaded gives back the loaded state: default     *)
(* adjustments, filter "none", the processed image equal to the original,  *)
(* and the history the original alone with the cursor at 0.                *)
(***************************************************************************)
C9_ResetGivesLoaded ==
    (lastOp = "reset" /\ HasImage(prev)) =>
        /\ DefaultAdjustments(app)
        /\ app.processed_image = app.original_image
        /\ app.history = <<app.original_image>>
        /\ app.history_position = 0

(***************************************************************************)
(* C10: with an image loaded, a slider moved (preview on), a filter        *)
(* applied or a rotation or flip records the resulting processed image:    *)
(* the history changes, its cursor is on its last entry, and that entry is *)
(* the processed image.                                                    *)
(***************************************************************************)
SliderMoved ==
    /\ lastOp = "slider"
    /\ prev.real_time_preview
    /\ \/ app.brightness_slider # prev.brightness_slider
       \/ app.contrast_slider # prev.contrast_slider
       \/ app.saturation_slider # prev.saturation_slider
       \/ app.hue_slider # prev.hue_slider

C10_EveryEditRecorded ==
    (/\ HasImage(prev)
     /\ SliderMoved \/ lastOp = "apply_filter" \/ lastOp \in SinglePushOps) =>
        /\ app.history # prev.history \/ app.history_position # prev.history_position
        /\ app.history_position = Len(app.history) - 1
        /\ app.history[Len(app.history)] = app.processed_image

(***************************************************************************)
(* C11: every run of the pipeline that the preview toggle does not skip    *)
(* (a slider moved with preview on, a filter applied, the filter cleared,  *)
(* the intensity changed under a filter) leaves as processed image the     *)
(* original taken through brightness and contrast, saturation, hue and the *)
(* selected filter, in this order, for every filter id, "none" included.   *)
(***************************************************************************)
PipelineRan ==
    \/ lastOp = "slider" /\ prev.real_time_preview
    \/ lastOp \in {"apply_filter", "reset_filter"}
    \/ lastOp = "intensity" /\ prev.current_filter # "none"

C11_FullRecompute ==
    (HasImage(prev) /\ PipelineRan) => app.processed_image = Pipeline(app)

(***************************************************************************)
(* C12: a step of the pipeline run at its identity parameter returns its   *)
(* input: adjust_brightness_contrast(I, 0, 1.0), adjust_saturation(I, 1.0) *)
(* and adjust_hue(I, 0) are each equal to I, so skipping the step gives    *)
(* what running it gives.                                                  *)
(***************************************************************************)
C12_IdentitySkip ==
    /\ (call.fn = "adjust_brightness_contrast" /\ call.args = <<0, 10>>) =>
           call.result = call.image
    /\ (call.fn = "adjust_saturation" /\ call.args = <<10>>) =>
           call.result = call.image
    /\ (call.fn = "adjust_hue" /\ call.args = <<0>>) =>
           call.result = call.image

(***************************************************************************)
(* C13: only a load writes the original image: every other handler (a      *)
(* slider, a filter, a geometry edit, undo, redo, reset) leaves it as it   *)
(* was, so with an image loaded the original is still a decoded file.      *)
(***************************************************************************)
C13_OriginalKept ==
    /\ lastOp \notin {"init", "load", "load_fail"} =>
           app.original_image = prev.original_image
    /\ HasImage(app) => app.original_image \in Files

\* an undo in a session whose processed image was edited away from the
\* original and whose history has more than two entries
C13_Witness ==
    /\ lastOp = "undo"
    /\ HasImage(app)
    /\ Len(app.history) > 2
    /\ app.processed_image # app.original_image
    /\ prev.processed_image # app.processed_image

(***************************************************************************)
(* C14: with an image loaded, a load that fails (opening the file,         *)
(* converting it, or any later step of loading raises) is reported in the  *)
(* status bar and leaves the original image, the processed image, the      *)
(* adjustments, the filter and the history as they were before the load.   *)
(***************************************************************************)
C14_FailedLoadKeeps ==
    (lastOp = "load_fail" /\ HasImage(prev)) =>
        /\ app.status = "Error loading image"
        /\ app = [prev EXCEPT !.status = app.status]

(***************************************************************************)
(* C15: every call of crop_image, resize_image (with or without            *)
(* keep-aspect) and resize_by_percentage on an image of positive size      *)
(* returns an image of positive width and height; a call whose computed    *)
(* target size has a zero among its dimensions returns its input.          *)
(***************************************************************************)
GeometryCall == call.fn \in {"crop_image", "resize_image", "resize_by_percentage"}

C15_PositiveSize ==
    GeometryCall =>
        /\ call.result.w > 0 /\ call.result.h > 0
        /\ Len(call.result.px) = call.result.w * call.result.h
        /\ (/\ call.fn = "resize_by_percentage"
            /\ call.args[1] > 0
            /\ (call.image.w * call.args[1]) \div 100 = 0) =>
               call.result = call.image

(***************************************************************************)
(* C16: crop_image brings left and right into [0, width] and top and       *)
(* bottom into [0, height]; when the box so obtained is empty (right <=    *)
(* left or bottom <= top) it returns its input, otherwise the image of     *)
(* size (right - left) x (bottom - top) whose pixels are those of the box. *)
(* The crop (0, 0, width, height) returns an image equal to the input.     *)
(***************************************************************************)
Clamp(c, n) == IF c < 0 THEN 0 ELSE IF c > n THEN n ELSE c

C16_CropClamps ==
    call.fn = "crop_image" =>
        LET I == call.image
            l == Clamp(call.args[1], I.w)
            t == Clamp(call.args[2], I.h)
            r == Clamp(call.args[3], I.w)
            b == Clamp(call.args[4], I.h)
            out == call.result
        IN  /\ (r <= l \/ b <= t) => out = I
            /\ (r > l /\ b > t) =>
                   /\ out.w = r - l /\ out.h = b - t
                   /\ Len(out.px) = out.w * out.h
                   /\ \A x \in 0..(out.w - 1), y \in 0..(out.h - 1) :
                          At(out, x, y) = At(I, l + x, t + y)
            /\ call.args = <<0, 0, I.w, I.h>> => out = I

\* a box that sticks out of a 2 x 2 image on three sides and keeps its
\* bottom row
C16_Witness ==
    /\ call.fn = "crop_image"
    /\ call.image.w = 2 /\ call.image.h = 2
    /\ call.args = <<-1, 1, 3, 3>>
    /\ call.result.w = 2 /\ call.result.h = 1
    /\ call.result.px = <<At(call.image, 0, 1), At(call.image, 1, 1)>>

(***************************************************************************)
(* C17: resize_image asked for a width or a height that is not positive,   *)
(* and resize_by_percentage asked for a percentage that is not positive,   *)
(* return their input and do not raise; a resize request of this kind made *)
(* in the application leaves the processed image and the history as they   *)
(* were.                                                                   *)
(***************************************************************************)
C17_InvalidResizeNoop ==
    /\ (call.fn = "resize_image" /\ (call.args[1] <= 0 \/ call.args[2] <= 0)) =>
           call.result = call.image
    /\ (call.fn = "resize_by_percentage" /\ call.args[1] <= 0) =>
           call.result = call.image
    /\ lastOp = "resize_invalid" =>
           /\ app.processed_image = prev.processed_image
           /\ app.history = prev.history
           /\ app.history_position = prev.history_position

\* resize_image was asked for (0, 100), and in the session a request the
\* handler rejects was made on a loaded image
C17_Witness ==
    /\ call.fn = "resize_image"
    /\ call.args[1] = 0 /\ call.args[2] = 100
    /\ call.image.w = 2
    /\ lastOp = "resize_invalid"
    /\ HasImage(prev)
    /\ app.status = "Invalid dimensions: Width and height must be positive"

(***************************************************************************)
(* C18: resize_image asked for a positive width and height returns, with   *)
(* keep-aspect, the image of size (floor(ow * s), floor(oh * s)) for       *)
(* s = min(width / ow, height / oh), which is inside the requested box,    *)
(* and without keep-aspect the image of size (width, height).              *)
(***************************************************************************)
C18_ResizeSize ==
    (call.fn = "resize_image" /\ call.args[1] > 0 /\ call.args[2] > 0) =>
        LET ow == call.image.w
            oh == call.image.h
            width == call.args[1]
            height == call.args[2]
            out == call.result
        IN  IF call.args[3]
            THEN /\ out.w = IF width * oh <= height * ow
                            THEN width ELSE (ow * height) \div oh
                 /\ out.h = IF width * oh <= height * ow
                            THEN (oh * width) \div ow ELSE height
                 /\ out.w <= width /\ out.h <= height
            ELSE out.w = width /\ out.h = height

(***************************************************************************)
(* C19: adjust_brightness_contrast(I, 0, 1.0) returns an image equal to I  *)
(* pixel for pixel, the very image that running both enhancers at their    *)
(* default factors gives (the function works on image.copy()).             *)
(***************************************************************************)
C19_DefaultIsIdentity ==
    (call.fn = "adjust_brightness_contrast" /\ call.args = <<0, 10>>) =>
        /\ call.result = call.image
        /\ call.result = EnhanceContrast(EnhanceBrightness(call.image, 100, 100), 10, 10)

\* the call at the defaults on an image of four different pixels
C19_Witness ==
    /\ call.fn = "adjust_brightness_contrast"
    /\ call.args = <<0, 10>>
    /\ call.image = ImgC
    /\ call.result.px[1] = <<255, 0, 0>>

(***************************************************************************)
(* C20: adjust_hue picks its result by the third of the circle the shift   *)
(* is in: in the first third the channels are rotated one way, in the      *)
(* second third the other way, and for every shift from 240 up to 360, the *)
(* upper end of the slider included, the image comes back unchanged.       *)
(***************************************************************************)
C20_HueThirds ==
    call.fn = "adjust_hue" =>
        LET shift == call.args[1]
        IN  /\ (0 <= shift /\ shift < 120) =>
                   call.result = MapPixels(call.image, LAMBDA p : <<p[3], p[1], p[2]>>)
            /\ (120 <= shift /\ shift < 240) =>
                   call.result = MapPixels(call.image, LAMBDA p : <<p[2], p[3], p[1]>>)
            /\ (240 <= shift /\ shift <= 360) => call.result = call.image

\* the direct call made was the filter branch for the filter id `name`
FilterCall(name) == call.fn = "filter" /\ call.args[1] = name

(***************************************************************************)
(* C21: the threshold filter is white exactly where the luma is above      *)
(* int(128 * intensity) and black elsewhere, on all three channels; a      *)
(* solid mid-gray image at level 128 comes out all black                   *)
(***************************************************************************)
C21_ThresholdStrict ==
    FilterCall("threshold") =>
        LET level == (128 * call.args[2]) \div 10
        IN  /\ call.result.w = call.image.w /\ call.result.h = call.image.h
            /\ \A i \in 1..Len(call.image.px) :
                   /\ call.result.px[i] \in {<<0, 0, 0>>, <<255, 255, 255>>}
                   /\ call.result.px[i] = <<255, 255, 255>>
                          <=> Luma(call.image.px[i]) > level
            /\ (call.image = SolidGray /\ call.args[2] = 10)
                   => \A i \in 1..Len(call.result.px) : call.result.px[i] = <<0, 0, 0>>

C21_Witness ==
    /\ FilterCall("threshold")
    /\ call.args[2] = 10
    /\ call.image = GrayRamp
    /\ call.result.px = <<<<0, 0, 0>>, <<0, 0, 0>>, <<255, 255, 255>>>>

\* round(intensity) of an intensity in tenths between 1.0 and 2.0
Round(intensity) == (intensity + 5) \div 10

(***************************************************************************)
(* C22: at every intensity from 0.1 to 2.0 the sharpen filter applies the  *)
(* sharpening kernel once when intensity <= 1.0 and max(1,                 *)
(* round(intensity)) times when intensity > 1.0                            *)
(***************************************************************************)
C22_SharpenPasses ==
    FilterCall("sharpen") =>
        call.result =
            SharpenTimes(call.image,
                         IF call.args[2] <= 10 THEN 1
                         ELSE Max(1, Round(call.args[2])))

\* the filter ids whose branch passes a window size to the filter
WindowFilters ==
    {"median_blur", "oil_painting", "erosion", "dilation", "opening", "closing"}

(***************************************************************************)
(* C23: at every intensity from 0.1 to 2.0 the window size passed to the   *)
(* median, mode, erosion, dilation, opening and closing filters is the     *)
(* integer derived from intensity x 5 and is at least 1, so the filter     *)
(* runs with a window of max(1, int(intensity x 5))                        *)
(***************************************************************************)
C23_WindowAtLeastOne ==
    (call.fn = "filter" /\ call.args[1] \in WindowFilters) =>
        LET size == Max(1, (call.args[2] * 5) \div 10)
        IN  /\ WindowSize(call.args[2]) >= 1
            /\ call.args[1] = "median_blur" => call.result = MedianFilter(call.image, size)
            /\ call.args[1] = "erosion" => call.result = MinFilter(call.image, size)
            /\ call.args[1] = "dilation" => call.result = MaxFilter(call.image, size)

(***************************************************************************)
(* C24: apply_sepia maps every pixel to the three weighted sums of the     *)
(* sepia matrix rows, each clamped to 0..255: a sum above 255 gives 255,   *)
(* it is not wrapped modulo 256                                            *)
(***************************************************************************)
C24_SepiaClamped ==
    call.fn = "apply_sepia" =>
        /\ call.result.w = call.image.w /\ call.result.h = call.image.h
        /\ \A i \in 1..Len(call.image.px) :
               call.result.px[i] = <<Min(255, SepiaSum(call.image.px[i], 1)),
                                     Min(255, SepiaSum(call.image.px[i], 2)),
                                     Min(255, SepiaSum(call.image.px[i], 3))>>

\* the sample out is original * (1 - intensity) + equalized * intensity,
\* within the rounding of one sample; intensity in tenths
IsBlendOf(out, original, equalized, intensity) ==
    LET d == 10 * out - (original * (10 - intensity) + equalized * intensity)
    IN  -10 <= d /\ d <= 10

(***************************************************************************)
(* C25: apply_histogram_equalization(image, intensity) is, for every       *)
(* pixel, original * (1 - intensity) + equalized * intensity, where        *)
(* equalized is what the function returns at intensity 1.0: below 1.0 the  *)
(* result moves linearly toward the unmodified image, which it is at 0.0   *)
(***************************************************************************)
C25_EqualizeBlend ==
    (call.fn = "apply_histogram_equalization" /\ call.args[1] <= 10) =>
        LET equalized == apply_histogram_equalization(call.image, 10, call.env)
        IN  \A i \in 1..Len(call.image.px) : \A c \in 1..3 :
                IsBlendOf(call.result.px[i][c], call.image.px[i][c],
                          equalized.px[i][c], call.args[1])

(***************************************************************************)
(* C26: the transforms are deterministic: a function called again on the   *)
(* same image with the same arguments, in the same build, returns the same *)
(* image, apply_pencil_sketch with its noise texture included              *)
(***************************************************************************)
C26_Deterministic ==
    [][(/\ call.fn # "none"
        /\ call'.fn = call.fn
        /\ call'.image = call.image
        /\ call'.args = call.args
        /\ call'.env = call.env)
       => call'.result = call.result]_vars

\* the recorded adjustment values are those the sliders hold
Synced(s) ==
    /\ s.current_brightness = s.brightness_slider
    /\ s.current_contrast = s.contrast_slider
    /\ s.current_saturation = s.saturation_slider
    /\ s.current_hue = s.hue_slider

\* a handler that invokes update_image("force") ran on a loaded image while
\* the preview was off
ForcedWithPreviewOff ==
    /\ ~prev.real_time_preview
    /\ \/ lastOp \in {"apply_filter", "reset_filter", "reset"} /\ HasImage(prev)
       \/ lastOp = "load" /\ HasImage(app)
       \/ lastOp = "toggle_preview" /\ HasImage(prev)

(***************************************************************************)
(* C27: while the real-time preview is off a slider callback is skipped:   *)
(* the processed image, the recorded adjustment values and the history     *)
(* stay as they were; a handler that invokes update_image("force") (apply  *)
(* filter, reset, load, turning the preview on) still runs it: the slider  *)
(* values are recorded and the selected filter's pipeline result is stored *)
(***************************************************************************)
C27_PreviewOffSkips ==
    /\ (lastOp = "slider" /\ ~prev.real_time_preview) =>
           /\ app.processed_image = prev.processed_image
           /\ app.current_brightness = prev.current_brightness
           /\ app.current_contrast = prev.current_contrast
           /\ app.current_saturation = prev.current_saturation
           /\ app.current_hue = prev.current_hue
           /\ app.history = prev.history
           /\ app.history_position = prev.history_position
    /\ ForcedWithPreviewOff =>
           /\ Synced(app)
           /\ app.current_filter # "none" => app.processed_image = Pipeline(app)

\* with the preview off and a filter selected, a slider was moved away from
\* the recorded value
C27_Witness ==
    /\ lastOp = "slider"
    /\ ~prev.real_time_preview
    /\ HasImage(prev)
    /\ prev.current_filter # "none"
    /\ ~Synced(app)

(***************************************************************************)
(* C28: apply_filter with a filter id other than "none", on a loaded image *)
(* whose history is at its newest entry and not full, adds exactly one     *)
(* history entry, so that one undo right after gives back the processed    *)
(* image of before the filter                                              *)
(***************************************************************************)
C28_OneEntryPerFilter ==
    (/\ lastOp = "apply_filter"
     /\ HasImage(prev)
     /\ prev.history_position = Len(prev.history) - 1
     /\ Len(prev.history) < max_history) =>
        /\ Len(app.history) = Len(prev.history) + 1
        /\ app.history_position = prev.history_position + 1
        /\ undo(app).processed_image = prev.processed_image

\* the handlers that edit the geometry of the processed image
GeometryOps == {"rotate", "flip_horizontal", "flip_vertical", "resize", "mouse_up"}

\* image is what the geometry edit of handler op makes of base
ShowsEdit(op, image, base) ==
    CASE op = "rotate" -> \E d \in Degrees : image = rotate_image(base, d)
      [] op = "flip_horizontal" -> image = flip_image_horizontal(base)
      [] op = "flip_vertical" -> image = flip_image_vertical(base)
      [] OTHER -> TRUE

(***************************************************************************)
(* C29: a geometry edit of the processed image persists through the next   *)
(* edit: when an image is loaded, one geometry edit is made and a filter   *)
(* is then applied, the processed image keeps the size the geometry edit   *)
(* gave it and is the rotation or flip of the filtered original            *)
(***************************************************************************)
C29_GeometryPersists ==
    [][(/\ nops = 2
        /\ HasImage(prev)
        /\ lastOp \in GeometryOps
        /\ app.processed_image # prev.processed_image
        /\ lastOp' = "apply_filter")
       => /\ app'.processed_image.w = app.processed_image.w
          /\ app'.processed_image.h = app.processed_image.h
          /\ ShowsEdit(lastOp, app'.processed_image, Pipeline(app'))]_vars

\* no image is loaded: the session is as the constructor left it
Empty(s) ==
    /\ s.original_image = None
    /\ s.processed_image = None
    /\ s.history = <<>>
    /\ s.history_position = -1

====
